---- MODULE Spec2Model ----
(***************************************************************************)
(* A model of the rawscan line scanner (source/include/rawscan_static.h). *)
(*                                                                         *)
(* Pointers into the working buffer are modelled as offsets from rsp->buf: *)
(* buf is offset 0 and buftop is offset bufsz.  The byte at buftop is the  *)
(* sentinel copy of the delimiter, the first byte of a page that rs_open() *)
(* makes read-only: a store at or above buftop is stopped by SIGSEGV.  One *)
(* rs_getline() call is one                                                *)
(* action; the reads it performs are nondeterministic in their size (any   *)
(* short read), may report end of file only at the end of the input, and   *)
(* may fail.                                                               *)
(*                                                                         *)
(* Input bytes other than the delimiter carry their stream position        *)
(* (ByteBase + position), so that a lost, duplicated or reordered byte is  *)
(* visible; the scanner never inspects a byte except to compare it with    *)
(* the delimiter.                                                          *)
(***************************************************************************)
EXTENDS Integers, Sequences, FiniteSets, TLC

\* ---- bounds of the model ----
MaxLen == 4        \* longest input stream, in bytes
MaxBuf == 4        \* largest bufsz passed to rs_open()

\* ---- program constants ----
NULL == -1         \* the null pointer (no offset)
NUL == 0           \* '\0', also the content of fresh brk() pages
NL == 10           \* '\n'
EIO == 5           \* the errno captured from a failed read()
ByteBase == 100    \* non-delimiter input byte at position i is ByteBase + i

Min(a, b) == IF a < b THEN a ELSE b

DataTypes == {"rt_full_line", "rt_full_line_without_eol",
              "rt_start_longline", "rt_within_longline"}

VARIABLES
    input,      \* the whole byte stream behind rsp->fd
    pos,        \* how many bytes of input read() has delivered so far
    mem,        \* the working buffer [buf, buftop), offsets 0 .. bufsz-1,
                \* and at offset bufsz the first byte of the sentinel page
    rsp,        \* the RAWSCAN structure
    status,     \* return value of the last rs_set_min1stchunklen()
    out,        \* bytes [begin, end] of every data result, in call order
    obs,        \* what the last library call did, if it was rs_getline()
    seen,       \* what the caller remembers of the results so far
    held,       \* buffer offsets the caller still borrows under pause mode
    hist,       \* the result types in call order, where a scenario records them
    proc        \* the process around the scanner: what rs_open() was given,
                \* the pages it took, and whether rs_close() has been called

vars == <<input, pos, mem, rsp, status, out, obs, seen, held, hist, proc>>

\* ---- the input streams ----
\* A stream of length n with delimiters exactly at the positions in ds.
StreamOf(n, ds, d) == [i \in 1..n |-> IF i \in ds THEN d ELSE ByteBase + i]

Streams(d) == {StreamOf(n, ds, d) : n \in 0..MaxLen, ds \in SUBSET (1..MaxLen)}

\* ---- rs_open ----
\* Faulty rs_open: the cursors start at the bottom of the buffer.
rs_open_at_buf(bufsz, delimiterbyte) ==
    [ buf |-> 0,
      buftop |-> bufsz,
      p |-> 0,
      q |-> 0,
      errnum |-> 0,
      bufsz |-> bufsz,
      min1stchunklen |-> bufsz,
      end_this_chunk |-> NULL,
      next_val_p |-> NULL,
      next_delim_ptr_peek |-> bufsz,
      result |-> [type |-> "rt_full_line", begin |-> NULL, end |-> NULL,
                  errnum |-> 0],
      delimiterbyte |-> delimiterbyte,
      in_longline |-> FALSE,
      terminate_current_pause |-> FALSE,
      longline_ended |-> FALSE,
      eof_seen |-> FALSE,
      err_seen |-> FALSE,
      pause_on_inval |-> FALSE ]

rs_open(bufsz, delimiterbyte) ==
    [ buf |-> 0,
      buftop |-> bufsz,
      p |-> bufsz,
      q |-> bufsz,
      errnum |-> 0,
      bufsz |-> bufsz,
      min1stchunklen |-> bufsz,
      end_this_chunk |-> NULL,
      next_val_p |-> NULL,
      next_delim_ptr_peek |-> bufsz,
      result |-> [type |-> "rt_full_line", begin |-> NULL, end |-> NULL,
                  errnum |-> 0],
      delimiterbyte |-> delimiterbyte,
      in_longline |-> FALSE,
      terminate_current_pause |-> FALSE,
      longline_ended |-> FALSE,
      eof_seen |-> FALSE,
      err_seen |-> FALSE,
      pause_on_inval |-> FALSE ]

\* The pages rs_open() takes above the data break: brk() hands them out
\* zero-filled and writable, buftop[0] is set to the delimiter, and the page
\* at buftop is then made read-only.
PROT_READ == "PROT_READ"
PROT_READ_WRITE == "PROT_READ|PROT_WRITE"

rs_open_pages(bufsz, delimiterbyte) ==
    [i \in 0..bufsz |-> IF i = bufsz THEN delimiterbyte ELSE NUL]

\* The process once rs_open(fd, bufsz, delimiterbyte) has returned a scanner:
\* allow is the flag allow_rawscan_force_bufsz_env of the caller, env_set and
\* env_str are the variable _RAWSCAN_FORCE_BUFSZ_ of its environment (a
\* sequence of characters).  rs_open() reads neither; the data break stays
\* raised over the pages and the sentinel page is read-only.
Process(allow, env_set, env_str, bufsz) ==
    [ allow_rawscan_force_bufsz_env |-> allow,
      env_set |-> env_set,
      env_str |-> env_str,
      bufsz_arg |-> bufsz,
      sentinel_prot |-> PROT_READ,
      pages |-> "allocated",
      closed |-> FALSE ]

\* rs_close(): a no-op, the pages and their protection stay as they are.
rs_close(pr) == pr

\* What one rs_getline() call has done so far: the machine state threaded
\* through the helpers.  ret is the return value of the last rawscan_read().
NoObs == [path |-> "none", reads |-> 0, shifts |-> 0, resets |-> 0,
          failed |-> "none"]

Machine == [rsp |-> rsp, mem |-> mem, pos |-> pos, ret |-> NULL, obs |-> NoObs]

\* assert(cond): the first assertion that does not hold is remembered; a
\* build with NDEBUG goes on from there, which is what the model does.
c_assert(m, cond, name) ==
    IF cond \/ m.obs.failed # "none" THEN m
    ELSE [m EXCEPT !.obs.failed = name]

\* The byte at offset i: buftop[0] is the sentinel delimiter.
ByteAt(m, i) == m.mem[i]

\* *(char *)addr = byte.  A store at or above buftop goes to the read-only
\* sentinel page: SIGSEGV stops it and the byte stays as it is.
store(m, addr, byte) ==
    IF addr >= m.rsp.buftop
    THEN c_assert(m, FALSE, "SIGSEGV: store at or above buftop")
    ELSE [m EXCEPT !.mem[addr] = byte]

\* Faulty rawmemchr: the scan starts one byte late.
rawmemchr_late(m, start) ==
    IF start >= m.rsp.buftop THEN m.rsp.buftop
    ELSE CHOOSE i \in (start+1)..m.rsp.buftop :
             /\ ByteAt(m, i) = m.rsp.delimiterbyte
             /\ \A j \in (start+1)..(i-1) : ByteAt(m, j) # m.rsp.delimiterbyte

\* rawmemchr(start, delimiterbyte): first delimiter at or after start; the
\* sentinel at buftop stops the scan.
rawmemchr(m, start) ==
    CHOOSE i \in start..m.rsp.buftop :
        /\ ByteAt(m, i) = m.rsp.delimiterbyte
        /\ \A j \in start..(i-1) : ByteAt(m, j) # m.rsp.delimiterbyte

\* ---- private helpers of rs_getline ----
SetResult(m, type, begin, end) ==
    [m EXCEPT !.rsp.result.type = type,
              !.rsp.result.begin = begin,
              !.rsp.result.end = end]

\* Faulty rawscan_full_line: p is not moved past the line returned.
rawscan_full_line_stay(m) ==
    LET r == m.rsp
        type == IF ByteAt(m, r.end_this_chunk) = r.delimiterbyte
                THEN "rt_full_line" ELSE "rt_full_line_without_eol"
    IN SetResult(m, type, r.p, r.end_this_chunk)

\* Faulty rawscan_full_line: p is moved one byte too far.
rawscan_full_line_skip(m) ==
    LET r == m.rsp
        type == IF ByteAt(m, r.end_this_chunk) = r.delimiterbyte
                THEN "rt_full_line" ELSE "rt_full_line_without_eol"
    IN [SetResult(m, type, r.p, r.end_this_chunk) EXCEPT !.rsp.p = r.next_val_p + 1]

rawscan_full_line(m) ==
    LET r == m.rsp
        a1 == c_assert(m, r.p <= r.end_this_chunk, "full_line: p <= end_this_chunk")
        a2 == c_assert(a1, r.next_val_p <= r.q, "full_line: next_val_p <= q")
        a3 == c_assert(a2, r.end_this_chunk <= r.q, "full_line: end_this_chunk <= q")
        a4 == c_assert(a3, ByteAt(m, r.end_this_chunk) = r.delimiterbyte \/ r.eof_seen,
                       "full_line: *end_this_chunk == delimiterbyte || eof_seen")
        type == IF ByteAt(m, r.end_this_chunk) = r.delimiterbyte
                THEN "rt_full_line" ELSE "rt_full_line_without_eol"
        m1 == SetResult(a4, type, r.p, r.end_this_chunk)
    IN [m1 EXCEPT !.rsp.p = r.next_val_p]

rawscan_eof(m) ==
    [m EXCEPT !.rsp.result.type = "rt_eof", !.rsp.eof_seen = TRUE]

\* Faulty rawscan_err: reporting the error forgets it, so the next call
\* reads again.
rawscan_err_once(m) ==
    [m EXCEPT !.rsp.result.type = "rt_err",
              !.rsp.result.errnum = m.rsp.errnum,
              !.rsp.err_seen = FALSE]

rawscan_err(m) ==
    c_assert([m EXCEPT !.rsp.result.type = "rt_err",
                       !.rsp.result.errnum = m.rsp.errnum],
             m.rsp.err_seen, "err: err_seen")

\* read(fd, q, buftop - q): any count from 1 up to what is both wanted and
\* left in the stream; 0 at the end of the stream (and for a zero-length
\* request); or a failure.  The machine's ret is the value returned:
\* pre_read_q, or NULL when nothing was read.
ReadCounts(m) ==
    1 .. Min(m.rsp.buftop - m.rsp.q, Len(input) - m.pos)

ReadIsEof(m) ==
    m.rsp.buftop - m.rsp.q = 0 \/ Len(input) - m.pos = 0

\* Faulty stamp: the delimiter is stored at q even when q is buftop.
stamp_delimiter_unguarded(m) == store(m, m.rsp.q, m.rsp.delimiterbyte)

\* "reduce useless rawmemchr scanning": a copy of the delimiter right after
\* the bytes read, where that is still inside the buffer.
stamp_delimiter(m) ==
    IF m.rsp.q < m.rsp.buftop
    THEN store(m, m.rsp.q, m.rsp.delimiterbyte)
    ELSE m

\* Faulty rawscan_read: a read that delivers the last bytes of the stream
\* is taken for the end of the input at once.
rawscan_read_cnt_eager(m, cnt) ==
    LET pre_read_q == m.rsp.q
        new_q == pre_read_q + cnt
        filled == [i \in DOMAIN m.mem |->
                     IF pre_read_q <= i /\ i < new_q
                     THEN input[m.pos + (i - pre_read_q) + 1]
                     ELSE m.mem[i]]
    IN stamp_delimiter([m EXCEPT !.rsp.q = new_q, !.mem = filled, !.pos = @ + cnt,
                                 !.rsp.eof_seen = (m.pos + cnt = Len(input)),
                                 !.ret = pre_read_q, !.obs.reads = @ + 1])

rawscan_read_cnt(m, cnt) ==
    LET pre_read_q == m.rsp.q
        new_q == pre_read_q + cnt
        filled == [i \in DOMAIN m.mem |->
                     IF pre_read_q <= i /\ i < new_q
                     THEN input[m.pos + (i - pre_read_q) + 1]
                     ELSE m.mem[i]]
    IN stamp_delimiter([m EXCEPT !.rsp.q = new_q, !.mem = filled, !.pos = @ + cnt,
                                 !.ret = pre_read_q, !.obs.reads = @ + 1])

rawscan_read_eof(m) ==
    [m EXCEPT !.rsp.eof_seen = TRUE, !.ret = NULL, !.obs.reads = @ + 1]

\* Faulty rawscan_read: errno of the failed read is not captured.
rawscan_read_err_uncaptured(m) ==
    [m EXCEPT !.rsp.err_seen = TRUE, !.ret = NULL, !.obs.reads = @ + 1]

rawscan_read_err(m) ==
    [m EXCEPT !.rsp.errnum = EIO, !.rsp.err_seen = TRUE, !.ret = NULL,
              !.obs.reads = @ + 1]

rawscan_read(m) ==
    {rawscan_read_cnt(m, cnt) : cnt \in ReadCounts(m)}
    \cup (IF ReadIsEof(m) THEN {rawscan_read_eof(m)} ELSE {})
    \cup {rawscan_read_err(m)}

\* Faulty rawscan_start_of_longline: in_longline is not set.
rawscan_start_of_longline_unmarked(m) ==
    [SetResult(m, "rt_start_longline", m.rsp.p, m.rsp.end_this_chunk)
        EXCEPT !.rsp.p = m.rsp.q]

rawscan_start_of_longline(m) ==
    LET r == m.rsp
        a1 == c_assert(m, r.in_longline = FALSE, "start_of_longline: !in_longline")
        a2 == c_assert(a1, r.longline_ended = FALSE, "start_of_longline: !longline_ended")
        a3 == c_assert(a2, r.q = r.buftop, "start_of_longline: q == buftop")
        m1 == SetResult(a3, "rt_start_longline", r.p, r.end_this_chunk)
    IN [m1 EXCEPT !.rsp.p = r.q,
                  !.rsp.in_longline = TRUE,
                  !.rsp.longline_ended = FALSE]

\* Faulty rawscan_within_longline: p is not moved past the chunk returned.
rawscan_within_longline_stay(m) ==
    [SetResult(m, "rt_within_longline", m.rsp.p, m.rsp.end_this_chunk)
        EXCEPT !.rsp.end_this_chunk = NULL, !.rsp.next_val_p = NULL]

rawscan_within_longline(m) ==
    LET r == m.rsp
        a1 == c_assert(m, r.in_longline = TRUE, "within_longline: in_longline")
        a2 == c_assert(a1, r.p <= r.end_this_chunk, "within_longline: p <= end_this_chunk")
        m1 == SetResult(a2, "rt_within_longline", r.p, r.end_this_chunk)
    IN [m1 EXCEPT !.rsp.p = r.next_val_p,
                  !.rsp.end_this_chunk = NULL,
                  !.rsp.next_val_p = NULL]

\* Faulty rawscan_terminate_longline: the end is reported but in_longline
\* stays set.
rawscan_terminate_longline_open(m) ==
    [SetResult(m, "rt_longline_ended", NULL, NULL)
        EXCEPT !.rsp.longline_ended = FALSE]

\* Faulty rawscan_terminate_longline: longline_ended is left set.
rawscan_terminate_longline_latched(m) ==
    [SetResult(m, "rt_longline_ended", NULL, NULL)
        EXCEPT !.rsp.in_longline = FALSE]

rawscan_terminate_longline(m) ==
    LET r == m.rsp
        a1 == c_assert(m, r.in_longline = TRUE, "terminate_longline: in_longline")
        a2 == c_assert(a1, r.longline_ended = TRUE, "terminate_longline: longline_ended")
        a3 == c_assert(a2, r.next_val_p = NULL, "terminate_longline: next_val_p == NULL")
        a4 == c_assert(a3, r.end_this_chunk = NULL, "terminate_longline: end_this_chunk == NULL")
        m1 == SetResult(a4, "rt_longline_ended", NULL, NULL)
    IN [m1 EXCEPT !.rsp.in_longline = FALSE,
                  !.rsp.longline_ended = FALSE]

\* Faulty rawscan_paused: gives the buffer up while reporting the pause.
rawscan_paused_rewind(m) ==
    [m EXCEPT !.rsp.result.type = "rt_paused", !.rsp.p = m.rsp.buf,
              !.rsp.q = m.rsp.buf]

\* Faulty rawscan_paused: reporting the pause also ends it.
rawscan_paused_once(m) ==
    [m EXCEPT !.rsp.result.type = "rt_paused",
              !.rsp.terminate_current_pause = TRUE]

rawscan_paused(m) ==
    [m EXCEPT !.rsp.result.type = "rt_paused"]

\* Faulty memmove: nothing is copied.
memmove_nothing(b, dest, src, n) == b

\* memmove(dest, src, n) on the buffer b: the ranges may overlap.
memmove(b, dest, src, n) ==
    [i \in DOMAIN b |-> IF dest <= i /\ i < dest + n
                        THEN b[src + (i - dest)]
                        ELSE b[i]]

\* Faulty distance: always all the way down to buf.
howfartoshift_to_buf(r) == r.p - r.buf

\* How far to shift: just enough to fit min1stchunklen bytes below buftop.
howfartoshift(r) == r.p - (r.buftop - r.min1stchunklen)

rawscan_shift_buffer_contents_down(m) ==
    LET r == m.rsp
        a1 == c_assert(m, ~r.in_longline, "shift: !in_longline")
        howmuchtoshift == r.q - r.p
        a2 == c_assert(a1, howmuchtoshift > 0, "shift: howmuchtoshift > 0")
        a3 == c_assert(a2, howmuchtoshift < r.min1stchunklen \/ r.in_longline,
                       "shift: howmuchtoshift < min1stchunklen")
        a4 == c_assert(a3, howfartoshift(r) > 0, "shift: howfartoshift > 0")
        old_p == r.p
        new_p == r.p - howfartoshift(r)
        new_q == r.q - howfartoshift(r)
        a5 == c_assert(a4, r.q = r.buftop, "shift: q == buftop")
        moved == memmove(m.mem, new_p, old_p, howmuchtoshift)
    IN [a5 EXCEPT !.mem = moved, !.rsp.p = new_p, !.rsp.q = new_q,
                  !.obs.shifts = @ + 1]

\* Faulty rawscan_handle_end_of_longline: the end is reported at once, in
\* place of the last chunk.
rawscan_handle_end_of_longline_at_once(m) ==
    rawscan_terminate_longline([m EXCEPT !.rsp.longline_ended = TRUE,
                                         !.rsp.end_this_chunk = NULL,
                                         !.rsp.next_val_p = NULL])

rawscan_handle_end_of_longline(m) ==
    IF ~m.rsp.longline_ended
    THEN rawscan_within_longline([m EXCEPT !.rsp.longline_ended = TRUE])
    ELSE rawscan_terminate_longline(m)

Via(m, path) == [m EXCEPT !.obs.path = path]

\* ---- rs_getline_morecode: the fast loop and the slow loop ----
\* The conditions the loops branch on.
\* Faulty test: a delimiter in the last byte below q is not seen.
got_delimiter_short(r, next_delim_ptr) == next_delim_ptr < r.q - 1

\* Faulty test: a delimiter found at q itself is taken for one of the input.
got_delimiter_stale(r, next_delim_ptr) == next_delim_ptr <= r.q

\* "got delimiter in [p, q)": a delimiter at or above q is stale or the sentinel.
got_delimiter(r, next_delim_ptr) == next_delim_ptr < r.q

\* Faulty test: a chunk of exactly min1stchunklen bytes is not long enough.
first_chunk_ready_strict(r, len) == len > r.min1stchunklen /\ ~r.in_longline

\* Faulty test: any non-empty first chunk is returned.
first_chunk_ready_any(r, len) == len > 0 /\ ~r.in_longline

\* The buffer holds a first chunk that is long enough to be returned.
first_chunk_ready(r, len) == len >= r.min1stchunklen /\ ~r.in_longline

\* Faulty test: a resume is not honoured.
must_pause_always(r) == r.pause_on_inval

\* Pause mode is on and the caller has not resumed.
must_pause(r) == r.pause_on_inval /\ ~r.terminate_current_pause

\* Faulty test: a cached delimiter at q itself is taken for one of the input.
peek_hit_stale(r) == r.p <= r.next_delim_ptr_peek /\ r.next_delim_ptr_peek <= r.q

\* The cached next_delim_ptr_peek is a delimiter inside [p, q).
peek_hit(r) == r.p <= r.next_delim_ptr_peek /\ r.next_delim_ptr_peek < r.q

\* Faulty reset: the resume stays in force.
reset_pause_logic_never(m) == m

\* "reset pause logic": the buffer was shifted or reset, the resume is used up.
reset_pause_logic(m) == [m EXCEPT !.rsp.terminate_current_pause = FALSE]

\* Faulty reset: q is left where it is.
reset_buffers_p_only(m) ==
    [m EXCEPT !.rsp.p = m.rsp.buf, !.obs.resets = @ + 1]

\* "reset buffers": everything buffered has been returned, start over at buf.
reset_buffers(m) ==
    [m EXCEPT !.rsp.p = m.rsp.buf, !.rsp.q = m.rsp.buf, !.obs.resets = @ + 1]

RECURSIVE fast_loop(_, _), slow_loop(_, _)

\* The set of machines one pass from the label fast_loop can end in, for
\* every outcome of the reads it performs.
fast_loop(m, start_next_rawmemchr_here) ==
    LET r == m.rsp
        next_delim_ptr == rawmemchr(m, start_next_rawmemchr_here)
    IN IF r.p < r.q /\ got_delimiter(r, next_delim_ptr) THEN
           LET m1 == SetResult(m, "rt_full_line", r.p, next_delim_ptr)
               m2 == [m1 EXCEPT !.rsp.p = next_delim_ptr + 1]
           IN {Via([m2 EXCEPT !.rsp.next_delim_ptr_peek =
                                   rawmemchr(m2, m2.rsp.p)], "fast_loop")}
       ELSE IF r.p < r.q /\ r.q < r.buftop THEN
           UNION { IF m2.ret = NULL
                   THEN slow_loop(m2, r.buftop)
                   ELSE fast_loop(m2, m2.ret) : m2 \in rawscan_read(m) }
       ELSE slow_loop(m, start_next_rawmemchr_here)

slow_loop(m0, start_next_rawmemchr_here) ==
    LET r == m0.rsp
        a1 == c_assert(m0, r.buf <= start_next_rawmemchr_here
                           /\ start_next_rawmemchr_here <= r.buftop,
                       "slow_loop: buf <= start <= buftop")
        next_delim_ptr == rawmemchr(m0, start_next_rawmemchr_here)
        m == c_assert(a1, next_delim_ptr >= r.p, "slow_loop: next_delim_ptr >= p")
        len == r.q - r.p
        chunk(end, next) == [m EXCEPT !.rsp.end_this_chunk = end,
                                      !.rsp.next_val_p = next]
    IN IF got_delimiter(r, next_delim_ptr) THEN
           LET m1 == chunk(next_delim_ptr, next_delim_ptr + 1)
           IN IF r.in_longline
              THEN {Via(rawscan_handle_end_of_longline(m1), "delim")}
              ELSE {Via(rawscan_full_line(m1), "delim")}
       ELSE IF r.eof_seen \/ r.err_seen THEN        \* end of input seen
           IF len > 0 THEN
               LET a2 == c_assert(m, r.q < r.buftop, "tail: q < buftop")
                   m1 == [a2 EXCEPT !.rsp.end_this_chunk = r.q - 1,
                                    !.rsp.next_val_p = r.q]
               IN IF r.in_longline
                  THEN {Via(rawscan_handle_end_of_longline(m1), "tail")}
                  ELSE {Via(rawscan_full_line(m1), "tail")}
           ELSE IF r.in_longline THEN
               {Via(rawscan_handle_end_of_longline(
                        [m EXCEPT !.rsp.longline_ended = TRUE,
                                  !.rsp.end_this_chunk = NULL,
                                  !.rsp.next_val_p = NULL]), "end_in_longline")}
           ELSE IF r.eof_seen THEN {Via(rawscan_eof(m), "eof")}
           ELSE {Via(rawscan_err(m), "err")}
       ELSE IF r.q < r.buftop THEN
           UNION { slow_loop(m2, IF m2.ret = NULL THEN r.buftop ELSE m2.ret)
                   : m2 \in rawscan_read(m) }
       ELSE IF first_chunk_ready(r, len) THEN
           {Via(rawscan_start_of_longline(chunk(r.q - 1, r.q)), "start_longline")}
       ELSE IF len > 0 THEN                         \* have more chars in buf
           LET a2 == c_assert(m, len < r.min1stchunklen \/ r.in_longline,
                              "len < min1stchunklen || in_longline")
           IN IF r.p > r.buf THEN                   \* have space below p
                  IF must_pause(r)
                  THEN {Via(rawscan_paused(a2), "paused_shift")}
                  ELSE slow_loop(
                         reset_pause_logic(rawscan_shift_buffer_contents_down(a2)),
                         r.buftop)
              ELSE
                  LET a3 == c_assert(a2, r.p = r.buf, "stuffed: p == buf")
                      a4 == c_assert(a3, r.q = r.buftop, "stuffed: q == buftop")
                      a5 == c_assert(a4, r.in_longline, "stuffed: in_longline")
                  IN {Via(rawscan_within_longline(
                            [a5 EXCEPT !.rsp.end_this_chunk = r.q - 1,
                                       !.rsp.next_val_p = r.q]), "stuffed")}
       ELSE
           IF must_pause(r)
           THEN {Via(rawscan_paused(m), "paused_reset")}
           ELSE LET m1 == reset_pause_logic(reset_buffers(m))
                IN UNION { slow_loop(m2, IF m2.ret = NULL THEN r.buftop ELSE m2.ret)
                           : m2 \in rawscan_read(m1) }

\* Faulty rs_getline_morecode: a latched longline_ended is not looked at on
\* entry.
rs_getline_morecode_unlatched(m) ==
    IF m.rsp.in_longline
    THEN slow_loop(m, m.rsp.buftop)
    ELSE fast_loop([m EXCEPT !.rsp.next_delim_ptr_peek = m.rsp.buftop], m.rsp.p)

rs_getline_morecode(m) ==
    IF m.rsp.in_longline THEN
        IF m.rsp.longline_ended
        THEN {Via(rawscan_handle_end_of_longline(m), "longline_ended")}
        ELSE slow_loop(m, m.rsp.buftop)
    ELSE fast_loop([m EXCEPT !.rsp.next_delim_ptr_peek = m.rsp.buftop], m.rsp.p)

\* rs_getline: the cached next_delim_ptr_peek, else the code above.
rs_getline(m) ==
    LET r == m.rsp
    IN IF peek_hit(r) THEN
           LET a1 == c_assert(m, r.result.type = "rt_full_line",
                              "peek: result.type == rt_full_line")
               a2 == c_assert(a1, r.next_delim_ptr_peek < r.buftop,
                              "peek: next_delim_ptr_peek < buftop")
               m1 == [a2 EXCEPT !.rsp.result.begin = r.p,
                                !.rsp.result.end = r.next_delim_ptr_peek,
                                !.rsp.p = r.next_delim_ptr_peek + 1]
           IN {Via([m1 EXCEPT !.rsp.next_delim_ptr_peek =
                                  rawmemchr(m1, m1.rsp.p)], "peek")}
       ELSE rs_getline_morecode(m)

\* Faulty rs_set_min1stchunklen: the buffer size itself is refused.
rs_set_min1stchunklen_below(r, min1stchunklen) ==
    IF min1stchunklen >= r.bufsz
    THEN [rsp |-> r, ret |-> -1]
    ELSE [rsp |-> [r EXCEPT !.min1stchunklen = min1stchunklen], ret |-> 0]

\* Faulty rs_set_min1stchunklen: the length is not compared with bufsz.
rs_set_min1stchunklen_unchecked(r, min1stchunklen) ==
    [rsp |-> [r EXCEPT !.min1stchunklen = min1stchunklen], ret |-> 0]

rs_set_min1stchunklen(r, min1stchunklen) ==
    IF min1stchunklen > r.bufsz
    THEN [rsp |-> r, ret |-> -1]
    ELSE [rsp |-> [r EXCEPT !.min1stchunklen = min1stchunklen], ret |-> 0]

\* Faulty rs_enable_pause: pause mode starts as if already resumed.
rs_enable_pause_resumed(r) == [r EXCEPT !.pause_on_inval = TRUE,
                                        !.terminate_current_pause = TRUE]

rs_enable_pause(r) == [r EXCEPT !.pause_on_inval = TRUE]

\* Faulty rs_disable_pause: a pending resume is left in force.
rs_disable_pause_half(r) == [r EXCEPT !.pause_on_inval = FALSE]

rs_disable_pause(r) == [r EXCEPT !.pause_on_inval = FALSE,
                                 !.terminate_current_pause = FALSE]

\* Faulty rs_resume_from_pause: the cached next_delim_ptr_peek is dropped too.
rs_resume_from_pause_unpeek(r) ==
    [r EXCEPT !.terminate_current_pause = TRUE,
              !.next_delim_ptr_peek = r.buftop]

rs_resume_from_pause(r) == [r EXCEPT !.terminate_current_pause = TRUE]

\* ---- the caller's view ----
\* The bytes [begin, end] of a result, read from the buffer b.
Bytes(b, begin, end) == [i \in 1..(end - begin + 1) |-> b[begin + i - 1]]

IsData(res) == res.type \in DataTypes

ResultLen(res) == res.end - res.begin + 1

\* The caller's memory of the results: the type of the last data-bearing
\* result, whether a rt_start_longline is still waiting for its
\* rt_longline_ended, and how many shifts and resets happened since the
\* caller last resumed or switched pause mode (counted up to 2).  early says
\* that the resume latch is set by a resume that did not answer a rt_paused.
\* pausedAt is the min1stchunklen under which the last rs_getline() returned
\* rt_paused, NULL once the caller has resumed or disabled pause mode since
\* (or when the last result was not rt_paused).
NoneSeen == [lastData |-> "none", llOpen |-> FALSE, inval |-> 0, early |-> FALSE,
             pausedAt |-> NULL]

Remember(s, m) ==
    LET res == m.rsp.result
        n == m.obs.shifts + m.obs.resets
    IN [lastData |-> IF IsData(res) THEN res.type ELSE s.lastData,
        llOpen |-> IF res.type = "rt_start_longline" THEN TRUE
                   ELSE IF res.type = "rt_longline_ended" THEN FALSE
                   ELSE s.llOpen,
        inval |-> IF m.rsp.pause_on_inval THEN Min(2, s.inval + n) ELSE 0,
        early |-> s.early /\ m.rsp.terminate_current_pause,
        pausedAt |-> IF res.type = "rt_paused" THEN m.rsp.min1stchunklen
                     ELSE NULL]

\* Under pause mode every returned range stays borrowed until the caller
\* resumes; a shift or a reset ends the borrowing of all earlier ranges.
Borrow(h, m) ==
    LET kept == IF m.obs.shifts + m.obs.resets > 0 THEN {} ELSE h
    IN IF m.rsp.pause_on_inval /\ IsData(m.rsp.result)
       THEN kept \cup (m.rsp.result.begin .. m.rsp.result.end)
       ELSE kept

\* ---- the state machine ----
Init ==
    /\ \E bufsz \in 1..MaxBuf, d \in {NUL, NL} :
          /\ rsp = rs_open(bufsz, d)
          /\ mem = rs_open_pages(bufsz, d)
          /\ proc = Process(FALSE, FALSE, <<>>, bufsz)
          /\ input \in Streams(d)
    /\ pos = 0
    /\ status = 0
    /\ out = <<>>
    /\ obs = NoObs
    /\ seen = NoneSeen
    /\ held = {}
    /\ hist = <<>>

\* What a scenario writes down of one result: its type and its bytes.
Entry(m) ==
    [type |-> m.rsp.result.type,
     bytes |-> IF IsData(m.rsp.result)
               THEN Bytes(m.mem, m.rsp.result.begin, m.rsp.result.end)
               ELSE <<>>]

GetLineCall(record) ==
    \E m \in rs_getline(Machine) :
        /\ rsp' = m.rsp
        /\ mem' = m.mem
        /\ pos' = m.pos
        /\ obs' = m.obs
        /\ out' = IF IsData(m.rsp.result)
                  THEN out \o Bytes(m.mem, m.rsp.result.begin, m.rsp.result.end)
                  ELSE out
        /\ seen' = Remember(seen, m)
        /\ held' = Borrow(held, m)
        /\ hist' = IF record THEN Append(hist, Entry(m)) ELSE hist
        /\ UNCHANGED <<input, status, proc>>

GetLine == GetLineCall(FALSE)

EnablePause ==
    /\ rsp' = rs_enable_pause(rsp)
    /\ seen' = [seen EXCEPT !.inval = 0]
    /\ held' = {}
    /\ obs' = NoObs
    /\ UNCHANGED <<input, pos, mem, status, out, hist, proc>>

DisablePause ==
    /\ rsp' = rs_disable_pause(rsp)
    /\ seen' = [seen EXCEPT !.inval = 0, !.early = FALSE, !.pausedAt = NULL]
    /\ held' = {}
    /\ obs' = NoObs
    /\ UNCHANGED <<input, pos, mem, status, out, hist, proc>>

ResumeFromPause ==
    /\ rsp' = rs_resume_from_pause(rsp)
    /\ seen' = [seen EXCEPT !.inval = 0,
                            !.early = IF rsp.terminate_current_pause THEN @
                                      ELSE rsp.result.type # "rt_paused",
                            !.pausedAt = NULL]
    /\ held' = {}
    /\ obs' = NoObs
    /\ UNCHANGED <<input, pos, mem, status, out, hist, proc>>

SetMin1stChunkLen ==
    \E len \in 0..(rsp.bufsz + 1) :
        LET c == rs_set_min1stchunklen(rsp, len)
        IN /\ rsp' = c.rsp
           /\ status' = c.ret
           /\ obs' = NoObs
           /\ UNCHANGED <<input, pos, mem, out, seen, held, hist, proc>>

Next ==
    \/ GetLine
    \/ EnablePause
    \/ DisablePause
    \/ ResumeFromPause
    \/ SetMin1stChunkLen

Spec == Init /\ [][Next]_vars

TypeOK ==
    /\ rsp.p \in 0..rsp.bufsz
    /\ rsp.q \in 0..rsp.bufsz
    /\ pos \in 0..Len(input)

\* The last library call was rs_getline(), so rsp.result is what it returned.
Returned(types) == obs.path # "none" /\ rsp.result.type \in types

\* ---- C1 ----
\* C1: the bytes [begin, end] of the data-bearing results, concatenated in
\* call order, are at every moment a prefix of the input stream, and when
\* rs_getline() returns rt_eof they are the whole input stream.
C1_ConcatenationIdentity ==
    /\ Len(out) <= Len(input)
    /\ out = SubSeq(input, 1, Len(out))
    /\ (Returned({"rt_eof"}) => out = input)

\* A stream of at least two records, longer than the buffer, was returned
\* whole, up to rt_eof.
C1_Witness ==
    /\ Returned({"rt_eof"})
    /\ out = input
    /\ Len(input) > rsp.bufsz
    /\ \E i \in 1..(Len(input) - 1) : input[i] = rsp.delimiterbyte

\* ---- C2 ----
\* The step is a rs_getline() call: every other call leaves obs empty.
GetLineStep == obs'.path # "none"

LongLineDataOrder ==
    /\ (seen.llOpen /\ IsData(rsp'.result)
            => rsp'.result.type = "rt_within_longline")
    /\ (rsp'.result.type = "rt_within_longline"
            => seen.llOpen /\ rsp'.result.begin <= rsp'.result.end)
    /\ (rsp'.result.type = "rt_longline_ended"
            => seen.llOpen /\ rsp'.result.begin = NULL /\ rsp'.result.end = NULL)

\* C2 as claimed: in addition to the order of the long-line results, the
\* data result just before every rt_longline_ended is a rt_within_longline.
C2_AsClaimed ==
    [][GetLineStep =>
          /\ LongLineDataOrder
          /\ (rsp'.result.type = "rt_longline_ended"
                 => seen.lastData = "rt_within_longline")]_vars

\* C2: between rt_start_longline and its rt_longline_ended every data result
\* is a non-empty rt_within_longline and rt_longline_ended carries no data;
\* the data result before rt_longline_ended is a rt_within_longline, except
\* that it is the rt_start_longline itself when the input ended (end of file
\* or read error) with nothing buffered after that first chunk.
C2_LongLineSequencing ==
    [][GetLineStep =>
          /\ LongLineDataOrder
          /\ (rsp'.result.type = "rt_longline_ended"
                 => \/ seen.lastData = "rt_within_longline"
                    \/ /\ seen.lastData = "rt_start_longline"
                       /\ obs'.path = "end_in_longline"
                       /\ (rsp'.eof_seen \/ rsp'.err_seen))]_vars

\* A long line of three results and its end marker have been returned.
C2_Witness ==
    /\ Returned({"rt_longline_ended"})
    /\ seen.lastData = "rt_within_longline"
    /\ obs.path = "longline_ended"
    /\ Len(out) > 2 * rsp.bufsz

\* ---- C3 ----
\* The stream as read() delivers it: a failed read ends it early.
Delivered == IF rsp.err_seen THEN SubSeq(input, 1, pos) ELSE input

\* Length of the record of stream s that starts after offset off: up to and
\* including its delimiter, or up to the end of the stream.
RecordLen(s, off) ==
    IF \E i \in (off+1)..Len(s) : s[i] = rsp.delimiterbyte
    THEN (CHOOSE i \in (off+1)..Len(s) :
             /\ s[i] = rsp.delimiterbyte
             /\ \A j \in (off+1)..(i-1) : s[j] # rsp.delimiterbyte) - off
    ELSE Len(s) - off

\* Stream offset of the first byte of the data result returned last.
ResultOffset == Len(out) - ResultLen(rsp.result)

\* C3: with min1stchunklen in [1, bufsz], a rt_full_line,
\* rt_full_line_without_eol or rt_start_longline result whose record is at
\* least min1stchunklen bytes long is at least min1stchunklen bytes long.
C3_FirstChunkGuarantee ==
    ( /\ Returned({"rt_full_line", "rt_full_line_without_eol", "rt_start_longline"})
      /\ rsp.min1stchunklen \in 1..rsp.bufsz
      /\ RecordLen(Delivered, ResultOffset) >= rsp.min1stchunklen )
    => ResultLen(rsp.result) >= rsp.min1stchunklen

\* A first chunk of exactly min1stchunklen < bufsz bytes, returned after a
\* shift made room for it.
C3_Witness ==
    /\ Returned({"rt_start_longline"})
    /\ rsp.min1stchunklen \in 1..(rsp.bufsz - 1)
    /\ obs.shifts > 0
    /\ ResultLen(rsp.result) = rsp.min1stchunklen

\* ---- C4 ----
\* The record of the input that starts after offset off ends with a
\* delimiter and is at most n bytes long, delimiter included.
ShortLineAt(off, n) ==
    \E i \in (off+1)..Min(off + n, Len(input)) : input[i] = rsp.delimiterbyte

\* C4: with min1stchunklen at its default (bufsz), no line of at most bufsz
\* bytes, delimiter included, is split: a rt_start_longline is returned only
\* for a record that has no delimiter within its first bufsz bytes, and a
\* rt_full_line covers its record from the first byte to the delimiter.
C4_ShortLinesWhole ==
    /\ ( Returned({"rt_start_longline"}) /\ rsp.min1stchunklen = rsp.bufsz
            => ~ShortLineAt(ResultOffset, rsp.bufsz) )
    /\ ( Returned({"rt_full_line"}) /\ rsp.min1stchunklen = rsp.bufsz
            => /\ ResultOffset = 0 \/ input[ResultOffset] = rsp.delimiterbyte
               /\ RecordLen(input, ResultOffset) = ResultLen(rsp.result) )

\* A line of exactly bufsz bytes that straddled the top of the buffer was
\* shifted down and returned as one rt_full_line.
C4_Witness ==
    /\ Returned({"rt_full_line"})
    /\ rsp.min1stchunklen = rsp.bufsz
    /\ obs.shifts > 0
    /\ ResultLen(rsp.result) = rsp.bufsz
    /\ rsp.bufsz >= 2

IsUnterminatedTail ==
    /\ Returned(DataTypes)
    /\ rsp.result.begin <= rsp.result.end
    /\ Len(out) = Len(input)
    /\ mem[rsp.result.end] # rsp.delimiterbyte

\* C6 as claimed: the byte after such a tail is inside the working buffer.
C6_Writability ==
    IsUnterminatedTail => rsp.result.end + 1 < rsp.buftop

\* ---- C7 ----
\* A rs_getline() call entered with pause mode on and no resume pending.
PausedCallStep ==
    GetLineStep /\ rsp.pause_on_inval /\ ~rsp.terminate_current_pause

\* C7 as claimed: such a call, when it returns rt_paused, has left the
\* buffer contents and the cursors p and q as they were.
C7_AsClaimed ==
    [][PausedCallStep /\ rsp'.result.type = "rt_paused"
          => mem' = mem /\ rsp'.p = rsp.p /\ rsp'.q = rsp.q]_vars

\* C7: a call entered with pause mode on and no resume pending shifts
\* nothing and resets nothing, and returns rt_paused where it would have;
\* it leaves p and every byte below the q it was entered with unchanged.
\* (A read earlier in the same call may have filled [q, buftop).)
C7_PausedLeavesDataAlone ==
    [][PausedCallStep =>
          /\ obs'.shifts = 0 /\ obs'.resets = 0
          /\ (obs'.path \in {"paused_shift", "paused_reset"}
                 <=> rsp'.result.type = "rt_paused")
          /\ (rsp'.result.type = "rt_paused" =>
                 /\ rsp'.p = rsp.p
                 /\ rsp'.q >= rsp.q
                 /\ rsp'.q = rsp'.buftop
                 /\ \A i \in 0..(rsp.q - 1) : mem'[i] = mem[i])]_vars

\* A call returned rt_paused in front of a shift after reading into the
\* space above q.
C7_Witness ==
    /\ Returned({"rt_paused"})
    /\ obs.path = "paused_shift"
    /\ obs.reads > 0
    /\ rsp.pause_on_inval /\ ~rsp.terminate_current_pause

\* ---- C8 ----
\* C8 as claimed: under pause mode no step changes a byte the caller still
\* borrows, for a caller that resumes only in answer to rt_paused.
C8_PauseSafety ==
    [][~seen.early => \A i \in held : mem'[i] = mem[i]]_vars

\* ---- C9 ----
\* C9: under pause mode at most one shift or reset happens after a resume
\* and it uses the resume up; a call entered with pause mode on and no
\* resume pending shifts and resets nothing; and resume leaves pause mode as
\* it is.
C9_ResumeLatch ==
    [][ /\ (rsp'.pause_on_inval =>
               /\ seen'.inval <= 1
               /\ (seen'.inval = 1 => ~rsp'.terminate_current_pause))
        /\ (PausedCallStep => obs'.shifts + obs'.resets = 0)
        /\ (rsp'.terminate_current_pause /\ ~rsp.terminate_current_pause
               => rsp'.pause_on_inval = rsp.pause_on_inval) ]_vars

\* After a resume, one reset was made and used the resume up, and the next
\* call returned rt_paused instead of shifting.
C9_Witness ==
    /\ Returned({"rt_paused"})
    /\ rsp.pause_on_inval
    /\ seen.inval = 1
    /\ ~rsp.terminate_current_pause

\* ---- the seed scenarios ----
\* The caller of the scenarios works like rawscanstresstest: it may enable
\* pause mode right after rs_open(), resumes after every rt_paused, and stops
\* at rt_eof or rt_err.  It writes down every result.
S4Input == StreamOf(11, {11}, NL)         \* "0123456789\n"
S5Input == StreamOf(10, {}, NL)           \* "0123456789"
S6Input == StreamOf(6, {2, 4, 6}, NL)     \* "a\nb\nc\n"

ScnInit ==
    /\ \E bufsz \in 1..MaxBuf :
          /\ rsp = rs_open(bufsz, NL)
          /\ mem = rs_open_pages(bufsz, NL)
          /\ proc = Process(FALSE, FALSE, <<>>, bufsz)
    /\ input \in {S4Input, S5Input, S6Input}
    /\ pos = 0
    /\ status = 0
    /\ out = <<>>
    /\ obs = NoObs
    /\ seen = NoneSeen
    /\ held = {}
    /\ hist = <<>>

\* The type of the result written down last.
LastType == IF hist = <<>> THEN "none" ELSE hist[Len(hist)].type

ScnEnablePause ==
    /\ hist = <<>>
    /\ ~rsp.pause_on_inval
    /\ EnablePause

ScnGetLine ==
    /\ LastType \notin {"rt_eof", "rt_err"}
    /\ LastType = "rt_paused" => rsp.terminate_current_pause
    /\ GetLineCall(TRUE)

ScnResume ==
    /\ LastType = "rt_paused"
    /\ ~rsp.terminate_current_pause
    /\ ResumeFromPause

ScnNext == ScnEnablePause \/ ScnGetLine \/ ScnResume

ScnSpec == ScnInit /\ [][ScnNext]_vars

\* s is an initial part of t.
IsPrefix(s, t) == Len(s) <= Len(t) /\ s = SubSeq(t, 1, Len(s))

Line(type, bytes) == [type |-> type, bytes |-> bytes]

Mark(type) == [type |-> type, bytes |-> <<>>]

\* ---- C10 ----
\* Scenario S6 is running: "a\nb\nc\n", bufsz = 3, pause mode enabled before
\* the first rs_getline(), no read has failed.
S6Running ==
    /\ input = S6Input
    /\ rsp.bufsz = 3
    /\ rsp.pause_on_inval
    /\ ~rsp.err_seen
    /\ hist # <<>>

\* C10 as claimed: the results are "a\n", "b\n", rt_paused, "c\n", rt_eof.
S6Claimed ==
    << Line("rt_full_line", <<ByteBase + 1, NL>>),
       Line("rt_full_line", <<ByteBase + 3, NL>>),
       Mark("rt_paused"),
       Line("rt_full_line", <<ByteBase + 5, NL>>),
       Mark("rt_eof") >>

C10_AsClaimed == S6Running => IsPrefix(hist, S6Claimed)

\* C10: in scenario S6, for every size of the reads, the results are
\* rt_paused, "a\n", rt_paused, "b\n", rt_paused, "c\n", rt_eof: the first
\* call returns rt_paused before any data, and every line is returned after
\* a resume.
S6Actual ==
    << Mark("rt_paused"),
       Line("rt_full_line", <<ByteBase + 1, NL>>),
       Mark("rt_paused"),
       Line("rt_full_line", <<ByteBase + 3, NL>>),
       Mark("rt_paused"),
       Line("rt_full_line", <<ByteBase + 5, NL>>),
       Mark("rt_eof") >>

C10_ScenarioS6 ==
    /\ S6Running => IsPrefix(hist, S6Actual)
    /\ S6Running /\ LastType = "rt_eof" => hist = S6Actual

\* Scenario S6 has run to rt_eof.
C10_Witness == S6Running /\ LastType = "rt_eof" /\ Len(hist) = 7

\* ---- a caller that reads the stream to its end ----
\* The caller may set min1stchunklen and enable pause mode before its first
\* rs_getline(); then it keeps calling rs_getline(), resumes after every
\* rt_paused, and stops at rt_eof or rt_err.  It writes down every result.
StreamEnded == rsp.result.type \in {"rt_eof", "rt_err"}

DrainSetMin1stChunkLen == hist = <<>> /\ SetMin1stChunkLen

DrainEnablePause == hist = <<>> /\ ~rsp.pause_on_inval /\ EnablePause

DrainGetLine ==
    /\ ~StreamEnded
    /\ rsp.result.type = "rt_paused" => rsp.terminate_current_pause
    /\ GetLineCall(TRUE)

DrainResume ==
    /\ rsp.result.type = "rt_paused"
    /\ ~rsp.terminate_current_pause
    /\ ResumeFromPause

DrainNext ==
    \/ DrainSetMin1stChunkLen
    \/ DrainEnablePause
    \/ DrainGetLine
    \/ DrainResume

DrainSpec == Init /\ [][DrainNext]_vars

\* ---- C11 ----
\* The most rs_getline() calls a stream of n bytes can take.
CallLimit(n) == 4 * n + 4

\* The caller's next call is due and returns.
CanGoOn ==
    \/ rsp.result.type = "rt_paused" /\ ~rsp.terminate_current_pause
    \/ rs_getline(Machine) # {}

\* No assert has stopped the last rs_getline() call: it did return.
CallCompleted == obs.failed = "none"

\* Where no assert stops a call, the caller is returned rt_eof or rt_err
\* after at most CallLimit calls: until then every call is due and has a
\* result, and no result before the last one is rt_eof or rt_err.
EndsWithinLimit ==
    /\ Len(hist) <= CallLimit(Len(input))
    /\ ~StreamEnded => CanGoOn
    /\ \A i \in 1..(Len(hist) - 1) : hist[i].type \notin {"rt_eof", "rt_err"}

\* C11 as claimed: for every finite input, a caller that keeps calling
\* rs_getline(), resuming after each rt_paused, is returned rt_eof or rt_err
\* after finitely many calls, and that result ends the sequence: every call
\* on the way returns its result.
C11_Termination == EndsWithinLimit /\ CallCompleted

\* ---- C12 ----
\* The most read() calls one rs_getline() call on a buffer of b bytes makes:
\* every read but the last stores at least one byte.
ReadLimit(b) == b

\* Where no assert stops it, the loop of a rs_getline() call ends, whatever
\* its reads return, after at most one shift or reset and at most ReadLimit
\* reads, with one result.
LoopEnds ==
    /\ rs_getline(Machine) # {}
    /\ obs.path # "none" =>
          /\ obs.shifts + obs.resets <= 1
          /\ obs.reads <= ReadLimit(rsp.bufsz)
          /\ rsp.result.type \in DataTypes \cup
                 {"rt_longline_ended", "rt_paused", "rt_eof", "rt_err"}

\* C12 as claimed: every rs_getline() call returns exactly one result after
\* finitely many steps of its loop, whether its reads return a count, zero
\* or a failure.
C12_CallReturns == LoopEnds /\ CallCompleted

\* ---- C13 ----
\* A rs_getline() call made after rt_eof or rt_err was returned.
CallAfterEnd == GetLineStep /\ StreamEnded

\* C13 as claimed: such a call returns rt_eof and reads nothing.
C13_AsClaimed ==
    [][CallAfterEnd => rsp'.result.type = "rt_eof" /\ obs'.reads = 0]_vars

\* C13: a call made after rt_eof returns rt_eof again, a call made after
\* rt_err returns rt_err again with the same errnum; neither reads, and
\* neither changes the buffer or the cursors.
C13_EndRepeats ==
    [][CallAfterEnd =>
          /\ rsp'.result = rsp.result
          /\ obs'.reads = 0
          /\ pos' = pos /\ mem' = mem
          /\ rsp'.p = rsp.p /\ rsp'.q = rsp.q]_vars

\* rt_err was returned a second time.
C13_Witness ==
    /\ Returned({"rt_err"})
    /\ obs.path = "err"
    /\ obs.reads = 0
    /\ rsp.result.errnum = EIO

\* ---- C14 ----
\* C14 as claimed: a rs_getline() call made once a read has failed runs to
\* its return (no assert stops it); and when it returns rt_err, every byte
\* read before the failure has been returned, nothing is left in the buffer,
\* and the result carries the errno of the failed read.
C14_DeferredError ==
    Returned(DataTypes \cup {"rt_longline_ended", "rt_err"}) /\ rsp.err_seen =>
        /\ obs.failed = "none"
        /\ (rsp.result.type = "rt_err" =>
               /\ out = SubSeq(input, 1, pos)
               /\ rsp.p = rsp.q
               /\ rsp.result.errnum = EIO)

\* ---- C15 ----
\* C15: once rt_full_line_without_eol has been returned no later call returns
\* a data-bearing result: it occurs at most once per stream and is the last
\* data-bearing result.
C15_TailIsLast ==
    [][GetLineStep /\ seen.lastData = "rt_full_line_without_eol"
          => ~IsData(rsp'.result)]_vars

\* After a rt_full_line_without_eol that followed other lines, the next call
\* returned rt_eof.
C15_Witness ==
    /\ Returned({"rt_eof"})
    /\ seen.lastData = "rt_full_line_without_eol"
    /\ \E i \in 1..Len(out) : out[i] = rsp.delimiterbyte
    /\ out = input

\* ---- C16 ----
\* The call did nothing but return: no read, shift or reset, buffer and
\* cursors as they were.
OnlyReturned ==
    /\ obs'.reads = 0 /\ obs'.shifts = 0 /\ obs'.resets = 0
    /\ mem' = mem /\ pos' = pos
    /\ rsp'.p = rsp.p /\ rsp'.q = rsp.q

\* The chunk holding the delimiter of a long line, or its last bytes at the
\* end of the input, is a rt_within_longline that latches longline_ended; the
\* call right after it returns rt_longline_ended and does nothing else.
LatchedEnd ==
    /\ (rsp'.longline_ended =>
           /\ rsp'.result.type = "rt_within_longline"
           /\ rsp'.in_longline
           /\ obs'.path \in {"delim", "tail"})
    /\ (rsp'.result.type = "rt_within_longline"
        /\ mem'[rsp'.result.end] = rsp'.delimiterbyte => rsp'.longline_ended)
    /\ (rsp.longline_ended =>
           /\ rsp'.result.type = "rt_longline_ended"
           /\ obs'.path = "longline_ended"
           /\ OnlyReturned)
    /\ (rsp'.result.type = "rt_longline_ended" =>
           /\ ~rsp'.in_longline /\ ~rsp'.longline_ended
           /\ rsp'.result.begin = NULL /\ rsp'.result.end = NULL)

\* C16 as claimed: every rt_longline_ended is returned by the call right
\* after the rt_within_longline chunk that latched longline_ended, and that
\* call reads, shifts and resets nothing.
C16_AsClaimed ==
    [][GetLineStep =>
          /\ LatchedEnd
          /\ (rsp'.result.type = "rt_longline_ended" =>
                 /\ rsp.longline_ended
                 /\ rsp.result.type = "rt_within_longline"
                 /\ OnlyReturned)]_vars

\* C16: the chunk with the delimiter of a long line, or with its last bytes
\* when the input ends with bytes buffered, is a rt_within_longline, and the
\* very next call returns the data-less rt_longline_ended, clears both flags
\* and reads, shifts, resets and pauses nothing.  When the input ends with
\* nothing buffered after the last chunk, rt_longline_ended is returned by
\* the call whose read found the end of the input, after its reset.
C16_TwoStepEnd ==
    [][GetLineStep =>
          /\ LatchedEnd
          /\ (rsp'.result.type = "rt_longline_ended" =>
                 \/ /\ rsp.longline_ended
                    /\ rsp.result.type = "rt_within_longline"
                    /\ OnlyReturned
                 \/ /\ ~rsp.longline_ended
                    /\ obs'.path = "end_in_longline"
                    /\ obs'.reads = 1 /\ obs'.resets = 1
                    /\ rsp.p = rsp.q
                    /\ (rsp'.eof_seen \/ rsp'.err_seen))]_vars

\* Under pause mode with no resume pending, rt_longline_ended was returned
\* right after the chunk that ended with the delimiter.
C16_Witness ==
    /\ Returned({"rt_longline_ended"})
    /\ obs.path = "longline_ended"
    /\ rsp.pause_on_inval /\ ~rsp.terminate_current_pause
    /\ out # <<>>
    /\ out[Len(out)] = rsp.delimiterbyte

\* ---- C17 ----
\* Scenario S5 is running: "0123456789" without delimiter, bufsz = 4, pause
\* mode off, no read has failed.
S5Running ==
    /\ input = S5Input
    /\ rsp.bufsz = 4
    /\ ~rsp.pause_on_inval
    /\ ~rsp.err_seen
    /\ hist # <<>>

S5Expected ==
    << Line("rt_start_longline", SubSeq(S5Input, 1, 4)),
       Line("rt_within_longline", SubSeq(S5Input, 5, 8)),
       Line("rt_within_longline", SubSeq(S5Input, 9, 10)),
       Mark("rt_longline_ended"),
       Mark("rt_eof") >>

\* C17: in scenario S5, for every size of the reads, the results are
\* rt_start_longline "0123", rt_within_longline "4567", rt_within_longline
\* "89", rt_longline_ended, rt_eof, and the byte after the end of the last
\* chunk is inside the buffer.
C17_ScenarioS5 ==
    /\ S5Running => IsPrefix(hist, S5Expected)
    /\ S5Running /\ LastType = "rt_eof" => hist = S5Expected
    /\ S5Running /\ Len(hist) = 3 /\ Returned({"rt_within_longline"})
          => rsp.result.end + 1 < rsp.buftop

\* Scenario S5 has run to rt_eof.
C17_Witness == S5Running /\ LastType = "rt_eof" /\ Len(hist) = 5

\* ---- C18 ----
\* Scenario S4 is running: "0123456789\n", bufsz = 4, pause mode off, no read
\* has failed.
S4Running ==
    /\ input = S4Input
    /\ rsp.bufsz = 4
    /\ ~rsp.pause_on_inval
    /\ ~rsp.err_seen
    /\ hist # <<>>

S4Expected ==
    << Line("rt_start_longline", SubSeq(S4Input, 1, 4)),
       Line("rt_within_longline", SubSeq(S4Input, 5, 8)),
       Line("rt_within_longline", SubSeq(S4Input, 9, 11)),
       Mark("rt_longline_ended"),
       Mark("rt_eof") >>

\* C18: in scenario S4, for every size of the reads, the results are
\* rt_start_longline "0123", rt_within_longline "4567", rt_within_longline
\* "89\n" whose last byte is the delimiter, rt_longline_ended, rt_eof.
C18_ScenarioS4 ==
    /\ S4Running => IsPrefix(hist, S4Expected)
    /\ S4Running /\ LastType = "rt_eof" => hist = S4Expected
    /\ S4Running /\ Len(hist) = 3 /\ Returned({"rt_within_longline"})
          => mem[rsp.result.end] = rsp.delimiterbyte

\* Scenario S4 has run to rt_eof.
C18_Witness == S4Running /\ LastType = "rt_eof" /\ Len(hist) = 5

\* ---- C19 ----
\* The lengths a caller may pass: around both ends of [1, bufsz].
LenArgs == 0..(rsp.bufsz + 1)

\* A failed rs_set_min1stchunklen() returns -1 and changes nothing; a
\* successful one returns 0 and changes min1stchunklen alone.
SetLeavesRest(len) ==
    LET c == rs_set_min1stchunklen(rsp, len)
    IN IF c.ret = 0
       THEN c.rsp = [rsp EXCEPT !.min1stchunklen = len]
       ELSE c.ret = -1 /\ c.rsp = rsp

\* C19 as claimed: rs_set_min1stchunklen(len) succeeds exactly for
\* 1 <= len <= bufsz.
C19_AsClaimed ==
    \A len \in LenArgs :
        /\ rs_set_min1stchunklen(rsp, len).ret = 0 <=> (1 <= len /\ len <= rsp.bufsz)
        /\ SetLeavesRest(len)

\* C19: rs_set_min1stchunklen(len) succeeds and stores len exactly for
\* len <= bufsz, 0 included; for len > bufsz it fails and leaves
\* min1stchunklen and all other scanner state unchanged.
C19_SetMin1stChunkLen ==
    /\ \A len \in LenArgs :
          /\ rs_set_min1stchunklen(rsp, len).ret = 0 <=> len <= rsp.bufsz
          /\ SetLeavesRest(len)
    /\ rsp.min1stchunklen \in 0..rsp.bufsz

\* A length of 0 was stored, and a later call was refused.
C19_Witness == status = -1 /\ rsp.min1stchunklen = 0

\* ---- C20 ----
\* C20: rs_disable_pause() clears pause_on_inval and terminate_current_pause
\* whatever they were, and while pause mode is off no rs_getline() call
\* returns rt_paused or turns it on.
C20_DisablePause ==
    [][ /\ ~rs_disable_pause(rsp).pause_on_inval
        /\ ~rs_disable_pause(rsp).terminate_current_pause
        /\ (rsp.pause_on_inval /\ ~rsp'.pause_on_inval
               => ~rsp'.terminate_current_pause)
        /\ (GetLineStep /\ ~rsp.pause_on_inval
               => rsp'.result.type # "rt_paused" /\ ~rsp'.pause_on_inval) ]_vars

\* rs_disable_pause() was called in answer to a rt_paused: the result of the
\* last rs_getline() is still rt_paused, and both flags are clear.
C20_Witness ==
    /\ rsp.result.type = "rt_paused"
    /\ obs = NoObs
    /\ ~rsp.pause_on_inval
    /\ ~rsp.terminate_current_pause
    /\ out # <<>>

\* ---- C21 ----
\* The scanner and its pages are as rs_open() returned them.
AsOpened ==
    /\ rsp = rs_open(proc.bufsz_arg, rsp.delimiterbyte)
    /\ mem = rs_open_pages(proc.bufsz_arg, rsp.delimiterbyte)

\* Every flag of the scanner is clear and min1stchunklen is bufsz.
FlagsClear ==
    /\ ~rsp.in_longline /\ ~rsp.longline_ended
    /\ ~rsp.eof_seen /\ ~rsp.err_seen
    /\ ~rsp.pause_on_inval /\ ~rsp.terminate_current_pause
    /\ rsp.min1stchunklen = rsp.bufsz

\* C21 as claimed: rs_open() returns a scanner with p = q = buf, every flag
\* clear and min1stchunklen equal to bufsz.
C21_AsClaimed ==
    AsOpened => rsp.p = rsp.buf /\ rsp.q = rsp.buf /\ FlagsClear

\* C21: rs_open() returns a scanner with p = q = buftop (an empty buffer
\* with no room left, so that the first rs_getline() resets and reads before
\* it searches), with in_longline, longline_ended, eof_seen, err_seen,
\* pause_on_inval and terminate_current_pause clear, and with min1stchunklen
\* equal to bufsz, the distance from buf to buftop.
C21_Opened ==
    AsOpened =>
        /\ rsp.p = rsp.buftop /\ rsp.q = rsp.buftop
        /\ rsp.buf + rsp.bufsz = rsp.buftop
        /\ rsp.bufsz = proc.bufsz_arg
        /\ FlagsClear

\* rs_open() has returned a scanner for a buffer of more than one byte, and
\* nothing has been read yet.
C21_Witness ==
    /\ AsOpened
    /\ rsp.bufsz > 1
    /\ pos = 0 /\ out = <<>>

\* ---- a caller with an environment, up to rs_close ----
\* What _RAWSCAN_FORCE_BUFSZ_ may hold when it is set.
EnvStrings == { <<"2">>, <<"0">>, <<"-", "1">>, <<"x">> }

\* The caller of the scenarios, started with any setting of the flag
\* allow_rawscan_force_bufsz_env and of the variable; it may call rs_close()
\* at any time and calls nothing after it.
ProcInit ==
    /\ \E bufsz \in 1..MaxBuf, allow \in BOOLEAN :
          /\ rsp = rs_open(bufsz, NL)
          /\ mem = rs_open_pages(bufsz, NL)
          /\ \/ proc = Process(allow, FALSE, <<>>, bufsz)
             \/ \E str \in EnvStrings : proc = Process(allow, TRUE, str, bufsz)
    /\ input \in {S4Input, S5Input, S6Input}
    /\ pos = 0
    /\ status = 0
    /\ out = <<>>
    /\ obs = NoObs
    /\ seen = NoneSeen
    /\ held = {}
    /\ hist = <<>>

ProcEnablePause == ~proc.closed /\ ScnEnablePause

ProcGetLine == ~proc.closed /\ ScnGetLine

ProcResume == ~proc.closed /\ ScnResume

Close ==
    /\ ~proc.closed
    /\ proc' = [rs_close(proc) EXCEPT !.closed = TRUE]
    /\ obs' = NoObs
    /\ UNCHANGED <<input, pos, mem, rsp, status, out, seen, held, hist>>

ProcNext == ProcEnablePause \/ ProcGetLine \/ ProcResume \/ Close

ProcSpec == ProcInit /\ [][ProcNext]_vars

\* ---- C22 ----
\* C22 as claimed: from the return of rs_open() until rs_close() the sentinel
\* page is read-only and its first byte is the delimiter; rs_close() makes
\* the page writable again and releases the pages of the buffer and of the
\* scanner record.
C22_SentinelLifecycle ==
    /\ ~proc.closed =>
          /\ proc.sentinel_prot = PROT_READ
          /\ mem[rsp.buftop] = rsp.delimiterbyte
          /\ proc.pages = "allocated"
    /\ proc.closed =>
          /\ proc.sentinel_prot = PROT_READ_WRITE
          /\ proc.pages = "released"

\* ---- C23 ----
\* "a positive integer value": the variable is set to a string of decimal
\* digits whose value is at least 1.
Digits == <<"0", "1", "2", "3", "4", "5", "6", "7", "8", "9">>

DigitOf(c) == (CHOOSE i \in 1..Len(Digits) : Digits[i] = c) - 1

IsDecimal(str) ==
    /\ str # <<>>
    /\ \A i \in 1..Len(str) : \E j \in 1..Len(Digits) : Digits[j] = str[i]

RECURSIVE DecimalValue(_)
DecimalValue(str) ==
    IF str = <<>> THEN 0
    ELSE 10 * DecimalValue(SubSeq(str, 1, Len(str) - 1)) + DigitOf(str[Len(str)])

EnvHoldsBufsz ==
    /\ proc.env_set
    /\ IsDecimal(proc.env_str)
    /\ DecimalValue(proc.env_str) >= 1

\* C23 as claimed: the scanner's bufsz is the value of _RAWSCAN_FORCE_BUFSZ_
\* when allow_rawscan_force_bufsz_env is set and the variable holds a
\* positive integer (every value drawn here is far below the limit of 2^31),
\* and is the bufsz argument of rs_open() in every other case.
C23_EnvOverride ==
    rsp.bufsz = IF proc.allow_rawscan_force_bufsz_env /\ EnvHoldsBufsz
                THEN DecimalValue(proc.env_str)
                ELSE proc.bufsz_arg

\* ---- C24 ----
\* C24: buf <= p <= q <= buftop in every state between two calls, from the
\* return of rs_open() on, whatever the calls before have read, shifted,
\* reset and returned.
C24_CursorInvariant ==
    /\ rsp.buf <= rsp.p
    /\ rsp.p <= rsp.q
    /\ rsp.q <= rsp.buftop

\* A call has shifted the buffer to a place above buf, read, and returned
\* the bytes from there on.
C24_Witness ==
    /\ Returned(DataTypes)
    /\ obs.shifts = 1 /\ obs.reads > 0
    /\ rsp.buf < rsp.result.begin
    /\ rsp.result.end < rsp.p /\ rsp.p <= rsp.q

\* ---- C25 ----
\* C25: the byte at buftop is the delimiter before and after every step, so
\* that every search of a call ends at or below buftop; no store is made at
\* or above buftop; the reads of a call that neither shifts nor resets fill
\* exactly [q, q') with q' <= buftop and leave the bytes below q alone; and
\* after the reads of a call that stored bytes and did not shift, the copy
\* of the delimiter is at q' when q' < buftop.
C25_SentinelIntact ==
    [][ /\ mem[rsp.buftop] = rsp.delimiterbyte
        /\ mem'[rsp'.buftop] = rsp'.delimiterbyte
        /\ obs'.failed # "SIGSEGV: store at or above buftop"
        /\ rsp'.q <= rsp'.buftop
        /\ (GetLineStep /\ obs'.shifts + obs'.resets = 0 =>
               /\ pos' - pos = rsp'.q - rsp.q
               /\ \A i \in 0..(rsp.q - 1) : mem'[i] = mem[i])
        /\ (GetLineStep /\ pos' > pos /\ obs'.shifts = 0 /\ rsp'.q < rsp'.buftop =>
               mem'[rsp'.q] = rsp'.delimiterbyte) ]_vars

\* A call has read twice: a short read, after which the copy of the
\* delimiter was stored at q, and a read that filled the buffer up to
\* buftop, after which it was not.
C25_Witness ==
    /\ obs.path # "none"
    /\ obs.reads >= 2
    /\ obs.resets = 1
    /\ rsp.q = rsp.buftop
    /\ pos = rsp.bufsz
    /\ obs.failed = "none"

\* ---- C26 ----
\* C26: every rt_full_line, from the cached peek or from the loops, and
\* every rt_within_longline that ends with the delimiter ends strictly below
\* q, at a byte that read() has delivered: a delimiter at or above q, a stale
\* copy or the sentinel, is never the end of a result.
C26_StaleNeverUsed ==
    ( \/ Returned({"rt_full_line"})
      \/ Returned({"rt_within_longline"}) /\ obs.path = "delim" )
    => /\ rsp.result.end < rsp.q
       /\ mem[rsp.result.end] = rsp.delimiterbyte
       /\ Len(out) <= pos
       /\ input[Len(out)] = rsp.delimiterbyte

\* A search stopped at the copy of the delimiter a short read had left at q,
\* the call read on, and returned the line with the delimiter of the input,
\* leaving again a copy at q.
C26_Witness ==
    /\ Returned({"rt_full_line"})
    /\ obs.reads >= 2
    /\ rsp.result.begin < rsp.result.end
    /\ rsp.q < rsp.buftop
    /\ mem[rsp.q] = rsp.delimiterbyte

\* ---- C27 ----
\* The result returned last is a range of bytes that read() delivered: it
\* starts inside the buffer, ends below q and below buftop, and p was moved
\* to the byte after it.
InsideFilled ==
    /\ rsp.buf <= rsp.result.begin
    /\ rsp.result.end < rsp.q
    /\ rsp.result.end < rsp.buftop
    /\ rsp.p = rsp.result.end + 1
    /\ Len(out) <= pos

\* C27 as claimed: every data-bearing result has buf <= begin <= end < buftop
\* and lies within the bytes filled by reads: it is not empty.
C27_AsClaimed ==
    Returned(DataTypes) => InsideFilled /\ rsp.result.begin <= rsp.result.end

\* ---- C28 ----
\* C28: in every state where the cached peek makes rs_getline() return at
\* once, the peek is the first delimiter at or after p and lies below q, the
\* scanner is not inside a long line, the call returns the rt_full_line
\* [p, peek] and moves p past it, and rs_getline_morecode() entered from the
\* same state returns without a read and leaves the same scanner, the same
\* buffer and the same result.
C28_FastPathEquivalent ==
    peek_hit(rsp) =>
        /\ rsp.next_delim_ptr_peek < rsp.q
        /\ ~rsp.in_longline
        /\ rsp.next_delim_ptr_peek = rawmemchr(Machine, rsp.p)
        /\ rs_getline_morecode(Machine) # {}
        /\ \A a \in rs_getline(Machine) :
              /\ a.obs.path = "peek"
              /\ a.obs.failed = "none"
              /\ a.rsp.result.type = "rt_full_line"
              /\ a.rsp.result.begin = rsp.p
              /\ a.rsp.result.end = rsp.next_delim_ptr_peek
              /\ a.rsp.p = rsp.next_delim_ptr_peek + 1
              /\ \A b \in rs_getline_morecode(Machine) :
                    /\ b.rsp = a.rsp
                    /\ b.mem = a.mem
                    /\ b.pos = a.pos
                    /\ b.obs.reads = 0
                    /\ b.obs.path = "fast_loop"

\* A line was returned through the cached peek, and the peek computed on
\* the way out will return the next line as well.
C28_Witness ==
    /\ Returned({"rt_full_line"})
    /\ obs.path = "peek"
    /\ peek_hit(rsp)

\* ---- C29 ----
\* C29: a call that shifts moves the bytes of [p, q), and the bytes it read
\* into [q, buftop) before, down by shift = p - (buftop - min1stchunklen) > 0
\* in their order; it goes on reading at q - shift, and the data result it
\* returns begins at p - shift = buftop - min1stchunklen, so that
\* min1stchunklen bytes of the line fit between there and buftop.
C29_ShiftMovesDown ==
    [][GetLineStep /\ obs'.shifts = 1 =>
          LET shift == rsp.p - (rsp.buftop - rsp.min1stchunklen)
          IN /\ shift > 0
             /\ \A i \in rsp.p..(rsp.q - 1) : mem'[i - shift] = mem[i]
             /\ \A i \in rsp.q..(rsp.buftop - 1) :
                    mem'[i - shift] = input[pos + (i - rsp.q) + 1]
             /\ rsp'.q = rsp.q - shift + (pos' - pos)
             /\ IsData(rsp'.result)
             /\ rsp'.result.begin = rsp.p - shift
             /\ rsp'.result.begin = rsp.buftop - rsp.min1stchunklen
             /\ rsp'.result.begin >= rsp.buf
             /\ rsp'.buftop - rsp'.result.begin >= rsp'.min1stchunklen]_vars

\* With 2 <= min1stchunklen < bufsz, the start of a line was shifted down to
\* buftop - min1stchunklen, above buf, and the line was returned from there.
C29_Witness ==
    /\ Returned({"rt_full_line"})
    /\ obs.shifts = 1
    /\ rsp.min1stchunklen >= 2 /\ rsp.min1stchunklen < rsp.bufsz
    /\ rsp.result.begin = rsp.buftop - rsp.min1stchunklen
    /\ ResultLen(rsp.result) >= 2

\* ---- C30 ----
\* The assertions of rawscan_shift_buffer_contents_down().
ShiftAsserts ==
    { "shift: !in_longline", "shift: howmuchtoshift > 0",
      "shift: howmuchtoshift < min1stchunklen", "shift: howfartoshift > 0",
      "shift: q == buftop" }

\* C30: no assertion of rawscan_shift_buffer_contents_down() fails in any
\* call, for every min1stchunklen the setter accepts; a call that shifts was
\* entered outside a long line and stays outside unless it returns the first
\* chunk of one, and the shift leaves p at or above buf.
C30_ShiftGuarded ==
    /\ obs.failed \notin ShiftAsserts
    /\ rsp.min1stchunklen \in 0..rsp.bufsz
    /\ obs.shifts > 0 =>
          /\ Returned({"rt_full_line", "rt_full_line_without_eol",
                       "rt_start_longline"})
          /\ rsp.buf <= rsp.result.begin
          /\ rsp.result.begin = rsp.buftop - rsp.min1stchunklen
          /\ rsp.result.begin <= rsp.result.end

\* Under pause mode, after a resume, a call shifted with a min1stchunklen
\* that the setter had lowered.
C30_Witness ==
    /\ obs.shifts = 1
    /\ obs.failed = "none"
    /\ rsp.pause_on_inval
    /\ rsp.min1stchunklen < rsp.bufsz
    /\ seen.inval = 1

\* ---- C31 ----
\* Every outcome of the rs_getline() call that would come next is the end
\* of the input as the flags have it, found without a read.
NextCallReportsEnd ==
    \A m \in rs_getline(Machine) :
        /\ m.rsp.result.type = (IF rsp.eof_seen THEN "rt_eof" ELSE "rt_err")
        /\ m.obs.reads = 0
        /\ m.obs.failed = "none"

\* C31: a call that finds the input ended (end of file or read error) inside
\* a long line with nothing buffered returns the data-less rt_longline_ended
\* and leaves the long line closed; the call after it returns rt_eof or
\* rt_err; and rt_eof or rt_err is never returned while a long line is open.
C31_LongLineClosedAtEnd ==
    /\ (obs.path = "end_in_longline" =>
           /\ rsp.result.type = "rt_longline_ended"
           /\ rsp.result.begin = NULL /\ rsp.result.end = NULL
           /\ rsp.p = rsp.q
           /\ rsp.eof_seen # rsp.err_seen
           /\ ~rsp.in_longline /\ ~rsp.longline_ended
           /\ ~seen.llOpen
           /\ NextCallReportsEnd)
    /\ (Returned({"rt_eof", "rt_err"}) =>
           /\ ~seen.llOpen
           /\ ~rsp.in_longline /\ ~rsp.longline_ended)
    /\ (seen.llOpen <=> rsp.in_longline)

\* A read error met right after a chunk of a long line that filled the
\* buffer: rt_longline_ended was returned.
C31_Witness ==
    /\ obs.path = "end_in_longline"
    /\ Returned({"rt_longline_ended"})
    /\ rsp.err_seen
    /\ seen.lastData = "rt_within_longline"
    /\ Len(out) = 2 * rsp.bufsz

\* ---- C32 ----
\* Where q stands when the call makes its first read: at buf after a reset,
\* moved down after a shift, else where the call found it.
QAtFirstRead ==
    IF obs'.resets > 0 THEN rsp.buf
    ELSE IF obs'.shifts > 0 THEN rsp.q - howfartoshift(rsp)
    ELSE rsp.q

\* C32: the reads of one rs_getline() call store what they deliver, in
\* stream order, upwards from q and never beyond buftop, and q advances by
\* exactly the number of bytes stored; every read but a last one that
\* returns zero or fails stores at least one byte; a zero count latches
\* eof_seen and a failure latches err_seen and captures errno, neither moves
\* q nor stores a byte; the bytes below the q of the first read, [p, q)
\* among them, stay as they are; a call without a read changes none of this.
C32_ReadSemantics ==
    [][GetLineStep =>
          LET base == QAtFirstRead
              n == pos' - pos
              ended == (rsp'.eof_seen /\ ~rsp.eof_seen)
                       \/ (rsp'.err_seen /\ ~rsp.err_seen)
          IN /\ rsp'.q = base + n
             /\ n \in 0..(rsp.buftop - base)
             /\ \A i \in 0..(n - 1) : mem'[base + i] = input[pos + i + 1]
             /\ (obs'.shifts = 0 /\ obs'.resets = 0 =>
                    \A i \in rsp.buf..(rsp.q - 1) : mem'[i] = mem[i])
             /\ (obs'.reads = 0 =>
                    /\ n = 0 /\ ~ended
                    /\ rsp'.errnum = rsp.errnum)
             /\ (obs'.reads > 0 =>
                    /\ n >= obs'.reads - (IF ended THEN 1 ELSE 0)
                    /\ ~(rsp.eof_seen \/ rsp.err_seen))
             /\ (rsp'.eof_seen /\ ~rsp.eof_seen =>
                    /\ ~rsp'.err_seen /\ rsp'.errnum = rsp.errnum
                    /\ obs'.reads > 0)
             /\ (rsp'.err_seen /\ ~rsp.err_seen =>
                    /\ ~rsp'.eof_seen /\ rsp'.errnum = EIO
                    /\ obs'.reads > 0)]_vars

\* One call read twice above bytes it already held: a count, then zero.
C32_Witness ==
    /\ Returned({"rt_full_line_without_eol"})
    /\ obs.reads = 2 /\ obs.shifts = 0 /\ obs.resets = 0
    /\ rsp.eof_seen
    /\ ResultLen(rsp.result) >= 2
    /\ rsp.result.begin > rsp.buf

\* ---- C33 ----
\* C33: a call other than rs_getline() leaves the buffer, the stream
\* position, the cursors p and q, in_longline, longline_ended and
\* next_delim_ptr_peek as they are: rs_enable_pause(), rs_disable_pause() and
\* rs_resume_from_pause() change at most pause_on_inval and
\* terminate_current_pause, rs_set_min1stchunklen() at most min1stchunklen;
\* and rs_getline() never changes pause_on_inval.
C33_FrameEffects ==
    [][ /\ (~GetLineStep =>
               /\ mem' = mem /\ pos' = pos
               /\ \/ rsp' = [rsp EXCEPT
                                !.pause_on_inval = rsp'.pause_on_inval,
                                !.terminate_current_pause =
                                     rsp'.terminate_current_pause]
                  \/ rsp' = [rsp EXCEPT
                                !.min1stchunklen = rsp'.min1stchunklen])
        /\ (GetLineStep =>
               /\ rsp'.pause_on_inval = rsp.pause_on_inval
               /\ rsp'.min1stchunklen = rsp.min1stchunklen) ]_vars

\* A call other than rs_getline() was made with a resume pending, in the
\* middle of the end of a long line, with bytes of the next line buffered.
C33_Witness ==
    /\ obs.path = "none"
    /\ rsp.pause_on_inval /\ rsp.terminate_current_pause
    /\ rsp.in_longline /\ rsp.longline_ended
    /\ rsp.p < rsp.q
    /\ rsp.result.type = "rt_within_longline"

\* ---- C34 ----
\* The last rs_getline() returned rt_paused and the caller has neither
\* resumed nor disabled pause mode since.
PauseStands == seen.pausedAt # NULL

\* The call returns rt_paused and changes nothing of the scanner, the buffer
\* or the stream.
PausedAgain ==
    /\ rsp'.result.type = "rt_paused"
    /\ rsp' = rsp /\ mem' = mem /\ pos' = pos
    /\ obs'.reads = 0 /\ obs'.shifts = 0 /\ obs'.resets = 0

LastHeld == CHOOSE i \in held : \A j \in held : j <= i

\* C35 as claimed: under pause mode, for a caller that resumes only in
\* answer to rt_paused, a data-bearing result returned while the caller
\* still borrows earlier results (none of them given up by a resume) begins
\* right after the last byte borrowed.
C35_Contiguous ==
    [][GetLineStep /\ rsp.pause_on_inval /\ ~seen.early /\ held # {}
          /\ IsData(rsp'.result)
          => rsp'.result.begin = LastHeld + 1]_vars

\* ---- C36 ----
\* The scanner as it stands, with pause mode switched on or off and no
\* resume pending.
WithPause(on) ==
    [Machine EXCEPT !.rsp.pause_on_inval = on,
                    !.rsp.terminate_current_pause = FALSE]

\* What a caller and the stream get to see of a finished call, the pause
\* flags aside: the result and the whole scanner, the buffer, the stream
\* position and the number of reads made.
Outcome(m) ==
    [rsp |-> [m.rsp EXCEPT !.pause_on_inval = FALSE,
                           !.terminate_current_pause = FALSE],
     mem |-> m.mem,
     pos |-> m.pos,
     reads |-> m.obs.reads]

\* The caller of rawscanstresstest under pause mode: one rs_getline(), and
\* after rt_paused a rs_resume_from_pause() and one more rs_getline().  The
\* reads of both calls are counted together.
PausedRun ==
    UNION { IF m.rsp.result.type = "rt_paused"
            THEN { Outcome(m2) :
                     m2 \in rs_getline([m EXCEPT
                              !.rsp = rs_resume_from_pause(m.rsp),
                              !.ret = NULL]) }
            ELSE { Outcome(m) }
            : m \in rs_getline(WithPause(TRUE)) }

\* The caller that never enables pause mode: one rs_getline().
PlainRun == { Outcome(m) : m \in rs_getline(WithPause(FALSE)) }

\* C36: from every state, and for every way the reads may turn out, a
\* caller under pause mode that resumes after rt_paused is returned, once
\* the rt_paused is left out, the same result with the same bytes as a
\* caller without pause mode, after the same reads, and both leave the
\* scanner, the buffer and the stream in the same state: so the two
\* sequences of results are the same call after call.
C36_PauseTransparent ==
    /\ PausedRun = PlainRun
    /\ \A o \in PausedRun : o.rsp.result.type # "rt_paused"

\* Under pause mode with lines borrowed, the call to come reads into the
\* space above q and then has to pause in front of a shift.
C36_Witness ==
    /\ rsp.pause_on_inval /\ ~rsp.terminate_current_pause
    /\ held # {}
    /\ \E m \in rs_getline(Machine) :
           /\ m.rsp.result.type = "rt_paused"
           /\ m.obs.reads > 0
           /\ m.obs.path = "paused_shift"

C38_TailBelowTop ==
    /\ obs.failed # "tail: q < buftop"
    /\ (obs.path = "tail" =>
           /\ rsp.q < rsp.buftop
           /\ (rsp.eof_seen \/ rsp.err_seen)
           /\ Returned({"rt_full_line_without_eol", "rt_within_longline"})
           /\ rsp.result.begin <= rsp.result.end
           /\ rsp.result.end = rsp.q - 1
           /\ rsp.p = rsp.q)

\* After a shift, the reads filled the buffer up to the last byte but one
\* and found the end of the file: the bytes were returned as the tail.
C38_Witness ==
    /\ obs.path = "tail"
    /\ obs.shifts = 1
    /\ rsp.eof_seen
    /\ rsp.q = rsp.buftop - 1
    /\ Returned({"rt_full_line_without_eol"})

\* ---- C39 ----
\* The assertions of the branch "buffer is stuffed with one chunk of a long
\* line".
StuffedAsserts ==
    { "stuffed: p == buf", "stuffed: q == buftop", "stuffed: in_longline" }

\* C39: the three assertions of the stuffed branch never fail, for every
\* min1stchunklen the setter accepts: the branch is only reached inside a
\* long line with the buffer full from buf to buftop, and the
\* rt_within_longline it returns is the whole buffer; every
\* rt_within_longline that does not end its long line comes from there and
\* is bufsz bytes long.
C39_StuffedChunk ==
    /\ obs.failed \notin StuffedAsserts
    /\ (obs.path = "stuffed" =>
           /\ Returned({"rt_within_longline"})
           /\ rsp.in_longline /\ ~rsp.longline_ended
           /\ rsp.result.begin = rsp.buf
           /\ rsp.result.end = rsp.buftop - 1
           /\ rsp.p = rsp.buftop /\ rsp.q = rsp.buftop)
    /\ (Returned({"rt_within_longline"}) /\ ~rsp.longline_ended =>
           /\ obs.path = "stuffed"
           /\ ResultLen(rsp.result) = rsp.bufsz)

\* With min1stchunklen lowered, a long line began with a short first chunk
\* and went on with a chunk that filled the buffer.
C39_Witness ==
    /\ obs.path = "stuffed"
    /\ Returned({"rt_within_longline"})
    /\ rsp.min1stchunklen < rsp.bufsz
    /\ rsp.bufsz >= 2
    /\ Len(out) < 2 * rsp.bufsz

\* ---- C40 ----
\* C40: between calls longline_ended implies in_longline; and a call that
\* returns rt_start_longline has passed every assertion on its way, those of
\* rawscan_start_of_longline() among them (in_longline and longline_ended
\* clear, q == buftop), and leaves in_longline set, longline_ended clear and
\* p == q == buftop.
C40_LongLineFlags ==
    /\ (rsp.longline_ended => rsp.in_longline)
    /\ obs.failed \notin { "start_of_longline: !in_longline",
                            "start_of_longline: !longline_ended",
                            "start_of_longline: q == buftop" }
    /\ (obs.path = "start_longline" <=> Returned({"rt_start_longline"}))
    /\ (Returned({"rt_start_longline"}) =>
           /\ obs.failed = "none"
           /\ rsp.in_longline /\ ~rsp.longline_ended
           /\ rsp.q = rsp.buftop /\ rsp.p = rsp.q
           /\ rsp.result.end = rsp.buftop - 1)

\* A long line began after a shift, with its first chunk shorter than the
\* buffer, after an earlier line.
C40_Witness ==
    /\ Returned({"rt_start_longline"})
    /\ obs.shifts = 1
    /\ rsp.result.begin > rsp.buf
    /\ rsp.in_longline /\ ~rsp.longline_ended
    /\ rsp.q = rsp.buftop

====
